---- MODULE Spec2Model ----
(***************************************************************************)
(* A model of the Walrus MCP server: the gateway client (walrus-client.ts) *)
(* and the tool/resource dispatcher (index.ts).                            *)
(*                                                                         *)
(* Strings are sequences of atoms.  Text the code inspects character by    *)
(* character (payloads, header values, base64 text) is a sequence of       *)
(* one-character atoms; a literal fragment of a message is one atom.       *)
(* Template strings and + are sequence concatenation.                      *)
(***************************************************************************)
EXTENDS Integers, Sequences, FiniteSets, TLC

VARIABLES env, override, objects, initialConfig, api, input, remote, reply, stored

vars == <<env, override, objects, initialConfig, api, input, remote, reply, stored>>

----------------------------------------------------------------------------
(* Bounds of the model *)

\* How many snapshots returned by getConfig callers keep alive at once.
MaxSnapshots == 1

----------------------------------------------------------------------------
(* JavaScript values *)

\* An optional string: undefined, or a string (possibly empty).
Undef == [def |-> FALSE, s |-> <<>>]

Some(str) == [def |-> TRUE, s |-> str]

\* JavaScript truthiness of an optional string: undefined and '' are falsy.
Truthy(o) == o.def /\ o.s # <<>>

\* a || b
Or(a, b) == IF Truthy(a) THEN a ELSE b

\* An optional number.
NoNum == [def |-> FALSE, n |-> 0]

Num(n) == [def |-> TRUE, n |-> n]

StartsWith(str, prefix) ==
    /\ Len(str) >= Len(prefix)
    /\ SubSeq(str, 1, Len(prefix)) = prefix

\* str contains part as a contiguous run.
Contains(str, part) ==
    \E i \in 0..(Len(str) - Len(part)) : SubSeq(str, i + 1, i + Len(part)) = part

DigitChars == <<"0", "1", "2", "3", "4", "5", "6", "7", "8", "9">>

RECURSIVE NatToString(_)
NatToString(n) ==
    IF n < 10 THEN <<DigitChars[n + 1]>>
    ELSE NatToString(n \div 10) \o <<DigitChars[(n % 10) + 1]>>

\* Number.prototype.toString() on an integer.
NumberToString(n) == IF n < 0 THEN <<"-">> \o NatToString(0 - n) ELSE NatToString(n)

IsDigit(c) == \E i \in 1..10 : DigitChars[i] = c

DigitValue(c) == (CHOOSE i \in 1..10 : DigitChars[i] = c) - 1

RECURSIVE ParseDigits(_, _)
ParseDigits(str, acc) ==
    IF str = <<>> \/ ~IsDigit(Head(str)) THEN acc
    ELSE ParseDigits(Tail(str), acc * 10 + DigitValue(Head(str)))

\* parseInt(str) on a string that starts with a digit: the leading digit run.
ParseInt(str) == ParseDigits(str, 0)

----------------------------------------------------------------------------
(* Base64, as Buffer.from(str, 'base64') and buf.toString('base64') do it *)

B64Chars ==
    <<"A", "B", "C", "D", "E", "F", "G", "H", "I", "J", "K", "L", "M",
      "N", "O", "P", "Q", "R", "S", "T", "U", "V", "W", "X", "Y", "Z",
      "a", "b", "c", "d", "e", "f", "g", "h", "i", "j", "k", "l", "m",
      "n", "o", "p", "q", "r", "s", "t", "u", "v", "w", "x", "y", "z",
      "0", "1", "2", "3", "4", "5", "6", "7", "8", "9", "+", "/">>

IsB64Char(c) == c \in {"-", "_"} \/ \E i \in 1..64 : B64Chars[i] = c

\* The 6-bit value of a base64 character (URL-safe '-' and '_' included).
Unbase64(c) ==
    IF c = "-" THEN 62
    ELSE IF c = "_" THEN 63
    ELSE (CHOOSE i \in 1..64 : B64Chars[i] = c) - 1

\* The sextets of the text: decoding stops at the first '=', and characters
\* outside the alphabet are skipped.
RECURSIVE Sextets(_)
Sextets(str) ==
    IF str = <<>> \/ Head(str) = "=" THEN <<>>
    ELSE IF IsB64Char(Head(str)) THEN <<Unbase64(Head(str))>> \o Sextets(Tail(str))
    ELSE Sextets(Tail(str))

RECURSIVE SextetsToBytes(_)
SextetsToBytes(q) ==
    IF Len(q) < 2 THEN <<>>
    ELSE IF Len(q) = 2 THEN <<q[1] * 4 + (q[2] \div 16)>>
    ELSE IF Len(q) = 3 THEN
        <<q[1] * 4 + (q[2] \div 16), (q[2] % 16) * 16 + (q[3] \div 4)>>
    ELSE <<q[1] * 4 + (q[2] \div 16),
           (q[2] % 16) * 16 + (q[3] \div 4),
           (q[3] % 4) * 64 + q[4]>> \o SextetsToBytes(SubSeq(q, 5, Len(q)))

\* Buffer.from(str, 'base64')
Base64Decode(str) == SextetsToBytes(Sextets(str))

\* buf.toString('base64')
RECURSIVE Base64Encode(_)
Base64Encode(b) ==
    IF b = <<>> THEN <<>>
    ELSE IF Len(b) = 1 THEN
        <<B64Chars[(b[1] \div 4) + 1], B64Chars[((b[1] % 4) * 16) + 1], "=", "=">>
    ELSE IF Len(b) = 2 THEN
        <<B64Chars[(b[1] \div 4) + 1],
          B64Chars[((b[1] % 4) * 16 + (b[2] \div 16)) + 1],
          B64Chars[((b[2] % 16) * 4) + 1], "=">>
    ELSE <<B64Chars[(b[1] \div 4) + 1],
           B64Chars[((b[1] % 4) * 16 + (b[2] \div 16)) + 1],
           B64Chars[((b[2] % 16) * 4 + (b[3] \div 64)) + 1],
           B64Chars[(b[3] % 64) + 1]>> \o Base64Encode(SubSeq(b, 4, Len(b)))

----------------------------------------------------------------------------
(* WalrusConfig and the constructor *)

DefaultAggregatorUrl == <<"https://aggregator-devnet.walrus.space">>

DefaultPublisherUrl == <<"https://publisher-devnet.walrus.space">>

DefaultSystemObject ==
    <<"0x37c0e4d7b36a2f64d51bba262a1791f844cfd88f19c35b5ca709e1a6991e90dc">>

\* new WalrusClient() with no argument: config is undefined.
NoOverride ==
    [given |-> FALSE, aggregatorUrl |-> Undef, publisherUrl |-> Undef,
     systemObject |-> Undef, wallet |-> Undef]

\* config?.field
OptionalField(config, field) == IF config.given THEN config[field] ELSE Undef

\* A constructor that reads the override with ?? instead of ||.
constructorNullish(config, environment) ==
    LET Nullish(a, b) == IF a.def THEN a ELSE b
    IN [aggregatorUrl |->
            Nullish(Nullish(OptionalField(config, "aggregatorUrl"),
                            environment.WALRUS_AGGREGATOR_URL),
                    Some(DefaultAggregatorUrl)),
        publisherUrl |->
            Nullish(Nullish(OptionalField(config, "publisherUrl"),
                            environment.WALRUS_PUBLISHER_URL),
                    Some(DefaultPublisherUrl)),
        systemObject |->
            Nullish(Nullish(OptionalField(config, "systemObject"),
                            environment.WALRUS_SYSTEM_OBJECT),
                    Some(DefaultSystemObject)),
        wallet |->
            Nullish(OptionalField(config, "wallet"), environment.WALRUS_WALLET_PATH)]

\* The WalrusClient constructor: the value of this.config.
constructor(config, environment) ==
    [aggregatorUrl |->
        Or(Or(OptionalField(config, "aggregatorUrl"), environment.WALRUS_AGGREGATOR_URL),
           Some(DefaultAggregatorUrl)),
     publisherUrl |->
        Or(Or(OptionalField(config, "publisherUrl"), environment.WALRUS_PUBLISHER_URL),
           Some(DefaultPublisherUrl)),
     systemObject |->
        Or(Or(OptionalField(config, "systemObject"), environment.WALRUS_SYSTEM_OBJECT),
           Some(DefaultSystemObject)),
     wallet |-> Or(OptionalField(config, "wallet"), environment.WALRUS_WALLET_PATH)]

\* this.config is the first object of the heap; the later ones are the
\* snapshots getConfig returned that a caller still holds.
ConfigRef == 1

ThisConfig == objects[ConfigRef]

----------------------------------------------------------------------------
(* The HTTP layer (axios) and the remote services *)

NoBlobObject == [present |-> FALSE, blobId |-> <<>>, size |-> 0, encodedSize |-> 0, id |-> <<>>]

NoResourceObject ==
    [present |-> FALSE, hasStorage |-> FALSE, startEpoch |-> NoNum, endEpoch |-> NoNum]

NoNewlyCreated ==
    [present |-> FALSE, blobObject |-> NoBlobObject, resourceObject |-> NoResourceObject]

NoAlreadyCertified ==
    [present |-> FALSE, blobId |-> <<>>, certifiedEpoch |-> NoNum, endEpoch |-> NoNum]

\* A JSON reply body with neither newlyCreated nor alreadyCertified.
EmptyData == [newlyCreated |-> NoNewlyCreated, alreadyCertified |-> NoAlreadyCertified]

\* What the remote does with one request: kind "ok" is a 2xx reply, "status" a
\* reply with another status, "network" a request that got no reply.
\* message is the text of the error axios raises; bodyError is the error
\* property of the reply's JSON body.
Answer(kind, status, message, bodyError, data, bytes, contentLength) ==
    [kind |-> kind, status |-> status, message |-> message, bodyError |-> bodyError,
     data |-> data, bytes |-> bytes, contentLength |-> contentLength]

StatusMessage(status) == <<"Request failed with status code ">> \o NumberToString(status)

TimeoutMessage == <<"timeout of 30000ms exceeded">>

\* error.response?.data?.error of a rejected request.  A reply read with
\* responseType 'arraybuffer' is delivered as a byte buffer, which has no
\* error property; so is the reply to a HEAD request, which has no body.
ErrorResponseDataError(request, r) ==
    IF r.kind # "status" THEN Undef
    ELSE IF request.responseType = "arraybuffer" \/ request.method = "HEAD" THEN Undef
    ELSE r.bodyError

\* error.response?.data?.error || error.message
AxiosErrorText(request, r) == Or(ErrorResponseDataError(request, r), Some(r.message)).s

----------------------------------------------------------------------------
(* Results of the client's methods *)

NoValue == [type |-> "none"]

\* A method that returned val, having issued the requests of log.
Return(val, log) == [ok |-> TRUE, val |-> val, msg |-> <<>>, log |-> log]

\* A method that threw new Error(msg).
Throw(msg, log) == [ok |-> FALSE, val |-> NoValue, msg |-> msg, log |-> log]

----------------------------------------------------------------------------
(* WalrusClient: storeBlob *)

\* What fs.readFile(path) does: the file's bytes, or an error (ENOENT, ...).
FileRead(ok, bytes, message) == [ok |-> ok, bytes |-> bytes, message |-> message]

AbsolutePath == <<"/", "t", "m", "p">>

RelativePath == <<".", "/", "a">>

ParentPath == <<".", ".", "/", "a">>

\* The files of the machine the client runs on, and their bytes.
Files == {AbsolutePath, ParentPath}

FileBytes(path) == IF path = AbsolutePath THEN <<1, 2, 3>> ELSE <<255>>

NoSuchFile == <<"ENOENT: no such file or directory">>

\* fs.readFile(path)
ReadFile(path) ==
    IF path \in Files THEN FileRead(TRUE, FileBytes(path), <<>>)
    ELSE FileRead(FALSE, <<>>, NoSuchFile)

\* A path test that misses the paths through the parent directory.
IsFilePathNoParent(data) ==
    \/ StartsWith(data, <<"/">>)
    \/ StartsWith(data, <<".", "/">>)

\* data.startsWith('/') || data.startsWith('./') || data.startsWith('../')
IsFilePath(data) ==
    \/ StartsWith(data, <<"/">>)
    \/ StartsWith(data, <<".", "/">>)
    \/ StartsWith(data, <<".", ".", "/">>)

\* The default value of storeBlob's epochs parameter.
DefaultEpochs == 5

\* httpClient.put(`${publisherUrl}/v1/store`, blobData, {headers, params})
StoreRequest(blobData, epochs) ==
    [method |-> "PUT",
     url |-> ThisConfig.publisherUrl.s \o <<"/v1/store">>,
     body |-> blobData,
     contentType |-> "application/octet-stream",
     epochs |-> Some(NumberToString(epochs)),
     responseType |-> "json"]

BlobInfo(blobId, size, encodedSize, storageId, certified, certifiedEpoch, endEpoch) ==
    [type |-> "BlobInfo", blobId |-> blobId, size |-> size, encodedSize |-> encodedSize,
     storageId |-> storageId, certified |-> certified,
     certifiedEpoch |-> certifiedEpoch, endEpoch |-> endEpoch]

StorePrefix == <<"Failed to store blob: ">>

UnexpectedFormat == <<"Unexpected response format from Walrus publisher">>

\* Reading a property of newlyCreated.blobObject when there is no blobObject.
BlobObjectTypeError == <<"Cannot read properties of undefined (reading 'blobId')">>

\* resourceObject?.storage?.field
StorageField(resourceObject, field) ==
    IF resourceObject.present /\ resourceObject.hasStorage
    THEN resourceObject[field] ELSE NoNum

\* A normalisation that takes the size fields of an alreadyCertified reply
\* from the reply, which has none.
StoreResponseNoZero(data, log) ==
    IF data.newlyCreated.present THEN
        IF ~data.newlyCreated.blobObject.present
        THEN Throw(StorePrefix \o BlobObjectTypeError, log)
        ELSE Return(BlobInfo(data.newlyCreated.blobObject.blobId,
                             data.newlyCreated.blobObject.size,
                             data.newlyCreated.blobObject.encodedSize,
                             data.newlyCreated.blobObject.id,
                             data.newlyCreated.resourceObject.present,
                             StorageField(data.newlyCreated.resourceObject, "startEpoch"),
                             StorageField(data.newlyCreated.resourceObject, "endEpoch")),
                    log)
    ELSE IF data.alreadyCertified.present THEN
        Return(BlobInfo(data.alreadyCertified.blobId,
                        data.alreadyCertified.certifiedEpoch.n,
                        data.alreadyCertified.endEpoch.n,
                        data.alreadyCertified.blobId, FALSE,
                        data.alreadyCertified.certifiedEpoch,
                        data.alreadyCertified.endEpoch),
               log)
    ELSE Throw(StorePrefix \o UnexpectedFormat, log)

\* The normalisation of a 2xx reply of the publisher; an error thrown here is
\* caught by storeBlob's own catch and rethrown with the prefix.
StoreResponse(data, log) ==
    IF data.newlyCreated.present THEN
        IF ~data.newlyCreated.blobObject.present
        THEN Throw(StorePrefix \o BlobObjectTypeError, log)
        ELSE Return(BlobInfo(data.newlyCreated.blobObject.blobId,
                             data.newlyCreated.blobObject.size,
                             data.newlyCreated.blobObject.encodedSize,
                             data.newlyCreated.blobObject.id,
                             data.newlyCreated.resourceObject.present,
                             StorageField(data.newlyCreated.resourceObject, "startEpoch"),
                             StorageField(data.newlyCreated.resourceObject, "endEpoch")),
                    log)
    ELSE IF data.alreadyCertified.present THEN
        Return(BlobInfo(data.alreadyCertified.blobId, 0, 0,
                        data.alreadyCertified.blobId, TRUE,
                        data.alreadyCertified.certifiedEpoch,
                        data.alreadyCertified.endEpoch),
               log)
    ELSE Throw(StorePrefix \o UnexpectedFormat, log)

\* storeBlob(data, epochs = 5); rs is what the remote does with the
\* successive requests it gets.
storeBlob(data, epochs, rs) ==
    LET e == IF epochs.def THEN epochs.n ELSE DefaultEpochs
        fs == ReadFile(data)
    IN IF IsFilePath(data) /\ ~fs.ok THEN Throw(StorePrefix \o fs.message, <<>>)
       ELSE LET blobData == IF IsFilePath(data) THEN fs.bytes ELSE Base64Decode(data)
                request == StoreRequest(blobData, e)
                r == Head(rs)
            IN IF r.kind = "ok" THEN StoreResponse(r.data, <<request>>)
               ELSE Throw(StorePrefix \o AxiosErrorText(request, r), <<request>>)

----------------------------------------------------------------------------
(* WalrusClient: getBlob, getBlobInfo, blobExists *)

\* httpClient.get(`${aggregatorUrl}/v1/${blobId}`, {responseType: 'arraybuffer'})
GetRequest(blobId) ==
    [method |-> "GET",
     url |-> ThisConfig.aggregatorUrl.s \o <<"/v1/">> \o blobId,
     body |-> <<>>,
     contentType |-> "application/json",
     epochs |-> Undef,
     responseType |-> "arraybuffer"]

\* httpClient.head(`${aggregatorUrl}/v1/${blobId}`)
HeadRequest(blobId) ==
    [method |-> "HEAD",
     url |-> ThisConfig.aggregatorUrl.s \o <<"/v1/">> \o blobId,
     body |-> <<>>,
     contentType |-> "application/json",
     epochs |-> Undef,
     responseType |-> "json"]

StringValue(str) == [type |-> "string", s |-> str]

BooleanValue(b) == [type |-> "boolean", b |-> b]

NotFoundPrefix == <<"Blob not found: ">>

RetrievePrefix == <<"Failed to retrieve blob: ">>

InfoPrefix == <<"Failed to get blob info: ">>

\* A catch block that forgets the prefix of the operation.
ReadErrorBare(prefix, blobId, request, r) ==
    IF r.kind = "status" /\ r.status = 404 THEN NotFoundPrefix \o blobId
    ELSE AxiosErrorText(request, r)

\* The catch block of getBlob and of getBlobInfo, on an error of axios.
ReadError(prefix, blobId, request, r) ==
    IF r.kind = "status" /\ r.status = 404 THEN NotFoundPrefix \o blobId
    ELSE prefix \o AxiosErrorText(request, r)

\* A getBlob that sends the request again when the first attempt fails.
getBlobRetry(blobId, rs) ==
    LET request == GetRequest(blobId)
        r == Head(rs)
        again == rs[2]
    IN IF r.kind = "ok" THEN Return(StringValue(Base64Encode(r.bytes)), <<request>>)
       ELSE IF again.kind = "ok"
       THEN Return(StringValue(Base64Encode(again.bytes)), <<request, request>>)
       ELSE Throw(ReadError(RetrievePrefix, blobId, request, again), <<request, request>>)

getBlob(blobId, rs) ==
    LET request == GetRequest(blobId)
        r == Head(rs)
    IN IF r.kind = "ok" THEN Return(StringValue(Base64Encode(r.bytes)), <<request>>)
       ELSE Throw(ReadError(RetrievePrefix, blobId, request, r), <<request>>)

getBlobInfo(blobId, rs) ==
    LET request == HeadRequest(blobId)
        r == Head(rs)
        size == ParseInt(Or(r.contentLength, Some(<<"0">>)).s)
    IN IF r.kind = "ok"
       THEN Return(BlobInfo(blobId, size, size, blobId, TRUE, NoNum, NoNum), <<request>>)
       ELSE Throw(ReadError(InfoPrefix, blobId, request, r), <<request>>)

blobExists(blobId, rs) ==
    LET request == HeadRequest(blobId)
        r == Head(rs)
    IN Return(BooleanValue(r.kind = "ok"), <<request>>)

----------------------------------------------------------------------------
(* WalrusClient: listBlobs, deleteBlob, getNetworkStatus, getConfig *)

\* A listBlobs that answers from an index of the blobs stored so far.
listBlobsIndexed(limit) ==
    Return([type |-> "array",
            items |-> IF limit > 0 /\ stored # {}
                      THEN <<CHOOSE id \in stored : TRUE>> ELSE <<>>],
           <<>>)

\* listBlobs(limit = 10): a warning on the console, and the empty array.
listBlobs(limit) == Return([type |-> "array", items |-> <<>>], <<>>)

DeleteMessage ==
    <<"Walrus blobs cannot be manually deleted. They will expire automatically based on their storage epochs.">>

\* A deleteBlob that refuses the empty identifier.
deleteBlobRejectEmpty(blobId) ==
    IF blobId = <<>>
    THEN Throw(<<"Blob ID is required">>, <<>>)
    ELSE Return([type |-> "DeleteOutcome", success |-> FALSE, message |-> DeleteMessage],
                <<>>)

\* deleteBlob: no request is made; the outcome is the same for every blobId.
deleteBlob(blobId) ==
    Return([type |-> "DeleteOutcome", success |-> FALSE, message |-> DeleteMessage], <<>>)

getNetworkStatus ==
    Return([type |-> "NetworkStatus", epoch |-> 1, networkSize |-> 100,
            totalStored |-> 1000000, availableStorage |-> 10000000], <<>>)

\* A getConfig that hands out this.config itself.
getConfigAlias(heap) == [ref |-> ConfigRef, heap |-> heap]

\* getConfig: { ...this.config }, a new object with the fields of this.config.
\* The result is the address of the new object and the heap holding it.
getConfig(heap) == [ref |-> Len(heap) + 1, heap |-> Append(heap, heap[ConfigRef])]

----------------------------------------------------------------------------
(* JSON.stringify(value, null, 2), as a sequence of tokens.  A property whose *)
(* value is undefined is left out; string escapes are not modelled.           *)

JsonString(str) == <<"\"">> \o str \o <<"\"">>

JsonBoolean(b) == IF b THEN <<"true">> ELSE <<"false">>

JsonOptionalString(key, o) == IF o.def THEN <<",", key>> \o JsonString(o.s) ELSE <<>>

JsonOptionalNumber(key, o) == IF o.def THEN <<",", key>> \o NumberToString(o.n) ELSE <<>>

JsonConfig(c) ==
    <<"{", "\"aggregatorUrl\": ">> \o JsonString(c.aggregatorUrl.s)
        \o <<",", "\"publisherUrl\": ">> \o JsonString(c.publisherUrl.s)
        \o <<",", "\"systemObject\": ">> \o JsonString(c.systemObject.s)
        \o JsonOptionalString("\"wallet\": ", c.wallet)
        \o <<"}">>

RECURSIVE JsonElements(_)
JsonElements(items) ==
    IF items = <<>> THEN <<>>
    ELSE JsonString(Head(items))
            \o (IF Len(items) > 1 THEN <<",">> ELSE <<>>)
            \o JsonElements(Tail(items))

\* An array of strings.
JsonArray(items) ==
    IF items = <<>> THEN <<"[]">> ELSE <<"[">> \o JsonElements(items) \o <<"]">>

JsonStringify(val) ==
    CASE val.type = "BlobInfo" ->
            <<"{", "\"blobId\": ">> \o JsonString(val.blobId)
                \o <<",", "\"size\": ">> \o NumberToString(val.size)
                \o <<",", "\"encodedSize\": ">> \o NumberToString(val.encodedSize)
                \o <<",", "\"storageId\": ">> \o JsonString(val.storageId)
                \o <<",", "\"certified\": ">> \o JsonBoolean(val.certified)
                \o JsonOptionalNumber("\"certifiedEpoch\": ", val.certifiedEpoch)
                \o JsonOptionalNumber("\"endEpoch\": ", val.endEpoch)
                \o <<"}">>
      [] val.type = "array" -> JsonArray(val.items)
      [] val.type = "DeleteOutcome" ->
            <<"{", "\"success\": ">> \o JsonBoolean(val.success)
                \o <<",", "\"message\": ">> \o JsonString(val.message)
                \o <<"}">>
      [] val.type = "NetworkStatus" ->
            <<"{", "\"epoch\": ">> \o NumberToString(val.epoch)
                \o <<",", "\"networkSize\": ">> \o NumberToString(val.networkSize)
                \o <<",", "\"totalStored\": ">> \o NumberToString(val.totalStored)
                \o <<",", "\"availableStorage\": ">> \o NumberToString(val.availableStorage)
                \o <<"}">>
      [] val.type = "string" -> JsonString(val.s)
      [] val.type = "boolean" -> JsonBoolean(val.b)

----------------------------------------------------------------------------
(* The tool schemas (zod) *)

\* A JSON value of the arguments object: its text or number, and its type.
JsUndefined == [s |-> <<>>, n |-> 0, t |-> "undefined"]

JsString(str) == [s |-> str, n |-> 0, t |-> "string"]

JsNumber(n) == [s |-> <<>>, n |-> n, t |-> "number"]

\* request.params.arguments: undefined, or an object; a key the object does
\* not have reads as undefined.
NoArguments ==
    [isObject |-> FALSE, data |-> JsUndefined, epochs |-> JsUndefined,
     blobId |-> JsUndefined, limit |-> JsUndefined]

EmptyArguments == [NoArguments EXCEPT !.isObject = TRUE]

\* The paths of the issues of z.object({...}).parse(args): required lists the
\* z.string() keys, optional the z.number().optional() keys.
Issues(args, required, optional) ==
    IF ~args.isObject THEN <<"(root)">>
    ELSE LET Bad(k) == IF k \in DOMAIN required THEN args[required[k]].t # "string"
                       ELSE args[optional[k - Len(required)]].t \notin {"number", "undefined"}
             Key(k) == IF k \in DOMAIN required THEN required[k]
                       ELSE optional[k - Len(required)]
             F[k \in 0..(Len(required) + Len(optional))] ==
                IF k = 0 THEN <<>>
                ELSE IF Bad(k) THEN F[k - 1] \o <<Key(k)>> ELSE F[k - 1]
         IN F[Len(required) + Len(optional)]

\* The message of the ZodError that parse throws: the issues, by path.
ZodMessage(issues) == <<"ZodError: ">> \o issues

StoreBlobSchema(args) == Issues(args, <<"data">>, <<"epochs">>)

GetBlobSchema(args) == Issues(args, <<"blobId">>, <<>>)

ListBlobsSchema(args) == Issues(args, <<>>, <<"limit">>)

DeleteBlobSchema(args) == Issues(args, <<"blobId">>, <<>>)

GetBlobInfoSchema(args) == Issues(args, <<"blobId">>, <<>>)

\* The value of an optional number that passed its schema.
OptionalNumber(v) == IF v.t = "number" THEN Num(v.n) ELSE NoNum

----------------------------------------------------------------------------
(* The CallToolRequestSchema handler *)

ToolNames == {"store_blob", "get_blob", "list_blobs", "delete_blob", "get_blob_info"}

\* The try block returned { content: [{ type: 'text', text }] }.
Returned(text, log, trace) ==
    [threw |-> FALSE, text |-> text, message |-> <<>>, log |-> log, trace |-> trace]

\* The try block threw an error with this message.
Threw(message, log, trace) ==
    [threw |-> TRUE, text |-> <<>>, message |-> message, log |-> log, trace |-> trace]

\* A case that calls the client's method first and parses the arguments after.
ToolCaseCallFirst(issues, method, outcome, text) ==
    IF ~outcome.ok THEN Threw(outcome.msg, outcome.log, <<method>>)
    ELSE IF issues # <<>> THEN Threw(ZodMessage(issues), outcome.log, <<method, "parse">>)
    ELSE Returned(text, outcome.log, <<method, "parse">>)

\* One case of the switch: the arguments are parsed, the client's method is
\* called with them, and its result is turned into the text of the reply.
ToolCase(issues, method, outcome, text) ==
    IF issues # <<>> THEN Threw(ZodMessage(issues), <<>>, <<"parse">>)
    ELSE IF outcome.ok THEN Returned(text, outcome.log, <<"parse", method>>)
    ELSE Threw(outcome.msg, outcome.log, <<"parse", method>>)

UnknownToolPrefix == <<"Unknown tool: ">>

\* The body of the handler's try block.
CallToolTry(name, args, rs) ==
    CASE name = "store_blob" ->
            LET outcome == storeBlob(args.data.s,
                                     Num(IF args.epochs.t = "number"
                                         THEN args.epochs.n ELSE DefaultEpochs),
                                     rs)
            IN ToolCase(StoreBlobSchema(args), "storeBlob", outcome,
                        IF outcome.ok THEN JsonStringify(outcome.val) ELSE <<>>)
      [] name = "get_blob" ->
            LET outcome == getBlob(args.blobId.s, rs)
            IN ToolCase(GetBlobSchema(args), "getBlob", outcome,
                        IF outcome.ok THEN outcome.val.s ELSE <<>>)
      [] name = "list_blobs" ->
            LET outcome == listBlobs(IF args.limit.t = "number" THEN args.limit.n ELSE 10)
            IN ToolCase(ListBlobsSchema(args), "listBlobs", outcome,
                        JsonStringify(outcome.val))
      [] name = "delete_blob" ->
            LET outcome == deleteBlob(args.blobId.s)
            IN ToolCase(DeleteBlobSchema(args), "deleteBlob", outcome,
                        JsonStringify(outcome.val))
      [] name = "get_blob_info" ->
            LET outcome == getBlobInfo(args.blobId.s, rs)
            IN ToolCase(GetBlobInfoSchema(args), "getBlobInfo", outcome,
                        IF outcome.ok THEN JsonStringify(outcome.val) ELSE <<>>)
      [] OTHER -> Threw(UnknownToolPrefix \o <<name>>, <<>>, <<>>)

\* What a handler hands back to the protocol layer: kind "envelope" is a
\* returned tool result, "contents" a returned resource, "fault" an error the
\* handler threw; a client method called directly "returned" or "thrown".
Reply(kind, isError, text, val, log, trace) ==
    [kind |-> kind, isError |-> isError, text |-> text, val |-> val,
     log |-> log, trace |-> trace]

NoReply == Reply("none", FALSE, <<>>, NoValue, <<>>, <<>>)

ErrorPrefix == <<"Error: ">>

\* A handler whose catch drops the message of the error.
CallToolRequestHandlerGeneric(name, args, rs) ==
    LET body == CallToolTry(name, args, rs)
    IN IF body.threw
       THEN Reply("envelope", TRUE, ErrorPrefix \o <<"Tool execution failed">>, NoValue,
                  body.log, body.trace)
       ELSE Reply("envelope", FALSE, body.text, NoValue, body.log, body.trace)

\* A handler without the catch: the error of the try block leaves the handler.
CallToolRequestHandlerNoCatch(name, args, rs) ==
    LET body == CallToolTry(name, args, rs)
    IN IF body.threw
       THEN Reply("fault", FALSE, body.message, NoValue, body.log, body.trace)
       ELSE Reply("envelope", FALSE, body.text, NoValue, body.log, body.trace)

\* The handler: the try block, and the catch that turns an error into an
\* envelope with isError.
CallToolRequestHandler(name, args, rs) ==
    LET body == CallToolTry(name, args, rs)
    IN IF body.threw
       THEN Reply("envelope", TRUE, ErrorPrefix \o body.message, NoValue, body.log, body.trace)
       ELSE Reply("envelope", FALSE, body.text, NoValue, body.log, body.trace)

----------------------------------------------------------------------------
(* The ReadResourceRequestSchema handler *)

StatusUri == "walrus://status"

ConfigUri == "walrus://config"

UnknownResourcePrefix == <<"Unknown resource: ">>

\* `Failed to read resource ${uri}: ${message}`
ReadFailure(uri, message) == <<"Failed to read resource ", uri, ": ">> \o message

\* A handler that answers an unknown URI with an error envelope, as the tool
\* handler does.
ReadResourceRequestHandlerSoft(uri, heap) ==
    IF uri = StatusUri
    THEN Reply("contents", FALSE, JsonStringify(getNetworkStatus.val), NoValue, <<>>,
               <<"getNetworkStatus">>)
    ELSE IF uri = ConfigUri
    THEN LET got == getConfig(heap)
         IN Reply("contents", FALSE, JsonConfig(got.heap[got.ref]), NoValue, <<>>,
                  <<"getConfig">>)
    ELSE Reply("envelope", TRUE, ErrorPrefix \o UnknownResourcePrefix \o <<uri>>,
               NoValue, <<>>, <<>>)

\* The snapshot getConfig makes for the handler is dropped when the handler
\* returns, so the heap is left as it was.
ReadResourceRequestHandler(uri, heap) ==
    IF uri = StatusUri
    THEN Reply("contents", FALSE, JsonStringify(getNetworkStatus.val), NoValue, <<>>,
               <<"getNetworkStatus">>)
    ELSE IF uri = ConfigUri
    THEN LET got == getConfig(heap)
         IN Reply("contents", FALSE, JsonConfig(got.heap[got.ref]), NoValue, <<>>,
                  <<"getConfig">>)
    ELSE Reply("fault", FALSE, ReadFailure(uri, UnknownResourcePrefix \o <<uri>>),
               NoValue, <<>>, <<>>)

----------------------------------------------------------------------------
(* The inputs the model draws *)

Hello == <<"S", "G", "V", "s", "b", "G", "8", "=">>

DotText == <<".", "a", "Q">>

BlobIds == {<<"blob-1">>, <<>>}

EnvValues == {Undef, Some(<<>>), Some(<<"from-env">>)}

OverrideValues == {Undef, Some(<<>>), Some(<<"from-override">>)}

AllEnvs ==
    [WALRUS_AGGREGATOR_URL : EnvValues, WALRUS_PUBLISHER_URL : EnvValues,
     WALRUS_SYSTEM_OBJECT : EnvValues, WALRUS_WALLET_PATH : EnvValues]

AllOverrides ==
    {NoOverride} \cup
    [given : {TRUE}, aggregatorUrl : OverrideValues, publisherUrl : OverrideValues,
     systemObject : OverrideValues, wallet : OverrideValues]

\* The environments the server is started in.
ServerEnvs ==
    {e \in AllEnvs :
        /\ e.WALRUS_AGGREGATOR_URL \in {Undef, Some(<<"from-env">>)}
        /\ e.WALRUS_PUBLISHER_URL = e.WALRUS_AGGREGATOR_URL
        /\ e.WALRUS_SYSTEM_OBJECT = Undef
        /\ e.WALRUS_WALLET_PATH = e.WALRUS_AGGREGATOR_URL}

NewData(blobObject, resourceObject) ==
    [newlyCreated |-> [present |-> TRUE, blobObject |-> blobObject,
                       resourceObject |-> resourceObject],
     alreadyCertified |-> NoAlreadyCertified]

SampleBlobObject ==
    [present |-> TRUE, blobId |-> <<"blob-1">>, size |-> 42, encodedSize |-> 64,
     id |-> <<"0xobject">>]

SampleResourceObject ==
    [present |-> TRUE, hasStorage |-> TRUE, startEpoch |-> Num(1), endEpoch |-> Num(6)]

CertifiedData ==
    [newlyCreated |-> NoNewlyCreated,
     alreadyCertified |-> [present |-> TRUE, blobId |-> <<"blob-2">>,
                           certifiedEpoch |-> Num(2), endEpoch |-> Num(7)]]

Ok(data, bytes, contentLength) == Answer("ok", 200, <<>>, Undef, data, bytes, contentLength)

Failed(status, bodyError) ==
    Answer("status", status, StatusMessage(status), bodyError, EmptyData, <<>>, Undef)

NoAnswer == Answer("network", 0, TimeoutMessage, Undef, EmptyData, <<>>, Undef)

RemoteErrors == {Undef, Some(<<>>), Some(<<"boom">>)}

PutAnswers ==
    {Ok(NewData(SampleBlobObject, SampleResourceObject), <<>>, Undef),
     Ok(NewData(SampleBlobObject, NoResourceObject), <<>>, Undef),
     Ok(NewData(NoBlobObject, NoResourceObject), <<>>, Undef),
     Ok(CertifiedData, <<>>, Undef),
     Ok(EmptyData, <<>>, Undef),
     NoAnswer}
    \cup {Failed(500, e) : e \in RemoteErrors}
    \cup {Failed(404, Some(<<"boom">>))}

GetAnswers ==
    {Ok(EmptyData, <<72, 101, 108, 108, 111>>, Undef),
     Ok(EmptyData, <<255, 0>>, Undef),
     Ok(EmptyData, <<>>, Undef),
     NoAnswer}
    \cup {Failed(500, e) : e \in RemoteErrors}
    \cup {Failed(404, e) : e \in {Undef, Some(<<"boom">>)}}

\* The reply to a HEAD request has no body.
HeadAnswers ==
    {Ok(EmptyData, <<>>, Some(<<"4", "2">>)),
     Ok(EmptyData, <<>>, Some(<<>>)),
     Ok(EmptyData, <<>>, Undef),
     NoAnswer, Failed(500, Undef), Failed(404, Undef)}

\* What the remote does with the requests of one operation: its answer to the
\* first request, and the answer a second request would have got.
Remotes(first, second) == {<<a, second>> : a \in first}

PutRemotes == Remotes(PutAnswers, Ok(CertifiedData, <<>>, Undef))

GetRemotes == Remotes(GetAnswers, Ok(EmptyData, <<72>>, Undef))

HeadRemotes == Remotes(HeadAnswers, Ok(EmptyData, <<>>, Some(<<"7">>)))

BlobIdArguments ==
    {NoArguments, EmptyArguments,
     [EmptyArguments EXCEPT !.blobId = JsString(<<"blob-1">>)],
     [EmptyArguments EXCEPT !.blobId = JsString(<<>>)],
     [EmptyArguments EXCEPT !.blobId = JsNumber(7)]}

\* The arguments each tool is called with.
ToolArguments(name) ==
    CASE name = "store_blob" ->
            {NoArguments, EmptyArguments,
             [EmptyArguments EXCEPT !.data = JsString(Hello)],
             [EmptyArguments EXCEPT !.data = JsString(AbsolutePath)],
             [EmptyArguments EXCEPT !.data = JsString(RelativePath)],
             [EmptyArguments EXCEPT !.data = JsString(ParentPath), !.epochs = JsNumber(3)],
             [EmptyArguments EXCEPT !.data = JsString(DotText), !.epochs = JsNumber(0)],
             [EmptyArguments EXCEPT !.data = JsNumber(42)],
             [EmptyArguments EXCEPT !.data = JsString(Hello), !.epochs = JsString(<<"x">>)]}
      [] name = "list_blobs" ->
            {NoArguments, EmptyArguments,
             [EmptyArguments EXCEPT !.limit = JsNumber(0)],
             [EmptyArguments EXCEPT !.limit = JsNumber(1000)],
             [EmptyArguments EXCEPT !.limit = JsString(<<"a">>)]}
      [] name \in {"get_blob", "get_blob_info", "delete_blob"} -> BlobIdArguments
      [] OTHER -> {NoArguments, EmptyArguments}

RequestedNames == ToolNames \cup {"nonexistent_tool"}

RequestedUris == {StatusUri, ConfigUri, "walrus://other"}

\* The remote as a tool call may meet it.
RemotesOf(name) ==
    CASE name = "store_blob" -> PutRemotes
      [] name = "get_blob" -> GetRemotes
      [] name = "get_blob_info" -> HeadRemotes
      [] OTHER -> {<<>>}

MutableFields == {"aggregatorUrl"}

MutatedValues == {Some(<<"mutated">>)}

----------------------------------------------------------------------------
(* The state machine *)

\* The input of the last operation.
NoInput ==
    [name |-> "", args |-> NoArguments, uri |-> "", data |-> <<>>, epochs |-> NoNum,
     blobId |-> <<>>, limit |-> NoNum, ref |-> 0, field |-> "", value |-> Undef]

Constructed(config, environment) ==
    /\ env = environment
    /\ override = config
    /\ objects = <<constructor(config, environment)>>
    /\ initialConfig = objects[ConfigRef]
    /\ api = "constructor"
    /\ input = NoInput
    /\ remote = <<>>
    /\ reply = NoReply
    /\ stored = {}

\* The server: const walrusClient = new WalrusClient().
Init == \E e \in ServerEnvs : Constructed(NoOverride, e)

\* A client constructed with any override in any environment.
InitConfig == \E e \in AllEnvs, c \in AllOverrides : Constructed(c, e)

Fixed == UNCHANGED <<env, override, initialConfig>>

\* The blob the requests of an operation created on the network: the publisher
\* answers a PUT with newlyCreated when it has stored a new blob, and with
\* alreadyCertified when the blob was there before.
Created(log, rs) ==
    IF /\ log # <<>>
       /\ Head(log).method = "PUT"
       /\ Head(rs).kind = "ok"
       /\ Head(rs).data.newlyCreated.present
       /\ Head(rs).data.newlyCreated.blobObject.present
    THEN {Head(rs).data.newlyCreated.blobObject.blobId}
    ELSE {}

CallTool ==
    \E name \in RequestedNames :
        \E args \in ToolArguments(name), rs \in RemotesOf(name) :
            /\ api' = "call_tool"
            /\ input' = [NoInput EXCEPT !.name = name, !.args = args]
            /\ remote' = rs
            /\ reply' = CallToolRequestHandler(name, args, rs)
            /\ stored' = stored \cup Created(reply'.log, rs)
            /\ UNCHANGED objects
            /\ Fixed

ReadResource ==
    \E uri \in RequestedUris :
        /\ api' = "read_resource"
        /\ input' = [NoInput EXCEPT !.uri = uri]
        /\ remote' = <<>>
        /\ reply' = ReadResourceRequestHandler(uri, objects)
        /\ UNCHANGED <<objects, stored>>
        /\ Fixed

\* A client method called directly: its outcome as a reply.
Called(outcome, trace) ==
    IF outcome.ok THEN Reply("returned", FALSE, <<>>, outcome.val, outcome.log, trace)
    ELSE Reply("thrown", TRUE, outcome.msg, NoValue, outcome.log, trace)

Call_storeBlob ==
    \E data \in {Hello, RelativePath, ParentPath}, epochs \in {NoNum, Num(3)} :
        \E rs \in PutRemotes :
            /\ api' = "storeBlob"
            /\ input' = [NoInput EXCEPT !.data = data, !.epochs = epochs]
            /\ remote' = rs
            /\ reply' = Called(storeBlob(data, epochs, rs), <<"storeBlob">>)
            /\ stored' = stored \cup Created(reply'.log, rs)
            /\ UNCHANGED objects
            /\ Fixed

Call_getBlob ==
    \E blobId \in BlobIds, rs \in GetRemotes :
        /\ api' = "getBlob"
        /\ input' = [NoInput EXCEPT !.blobId = blobId]
        /\ remote' = rs
        /\ reply' = Called(getBlob(blobId, rs), <<"getBlob">>)
        /\ UNCHANGED <<objects, stored>>
        /\ Fixed

Call_getBlobInfo ==
    \E blobId \in BlobIds, rs \in HeadRemotes :
        /\ api' = "getBlobInfo"
        /\ input' = [NoInput EXCEPT !.blobId = blobId]
        /\ remote' = rs
        /\ reply' = Called(getBlobInfo(blobId, rs), <<"getBlobInfo">>)
        /\ UNCHANGED <<objects, stored>>
        /\ Fixed

Call_blobExists ==
    \E blobId \in BlobIds, rs \in HeadRemotes :
        /\ api' = "blobExists"
        /\ input' = [NoInput EXCEPT !.blobId = blobId]
        /\ remote' = rs
        /\ reply' = Called(blobExists(blobId, rs), <<"blobExists">>)
        /\ UNCHANGED <<objects, stored>>
        /\ Fixed

Call_listBlobs ==
    \E limit \in {NoNum, Num(0), Num(1000)} :
        /\ api' = "listBlobs"
        /\ input' = [NoInput EXCEPT !.limit = limit]
        /\ remote' = <<>>
        /\ reply' = Called(listBlobs(IF limit.def THEN limit.n ELSE 10), <<"listBlobs">>)
        /\ UNCHANGED <<objects, stored>>
        /\ Fixed

Call_deleteBlob ==
    \E blobId \in BlobIds :
        /\ api' = "deleteBlob"
        /\ input' = [NoInput EXCEPT !.blobId = blobId]
        /\ remote' = <<>>
        /\ reply' = Called(deleteBlob(blobId), <<"deleteBlob">>)
        /\ UNCHANGED <<objects, stored>>
        /\ Fixed

Call_getNetworkStatus ==
    /\ api' = "getNetworkStatus"
    /\ input' = NoInput
    /\ remote' = <<>>
    /\ reply' = Called(getNetworkStatus, <<"getNetworkStatus">>)
    /\ UNCHANGED <<objects, stored>>
    /\ Fixed

\* getConfig called directly: the caller keeps the snapshot it gets.
Call_getConfig ==
    /\ Len(objects) < ConfigRef + MaxSnapshots
    /\ LET got == getConfig(objects)
       IN /\ objects' = got.heap
          /\ api' = "getConfig"
          /\ input' = [NoInput EXCEPT !.ref = got.ref]
          /\ reply' = Reply("returned", FALSE, <<>>, [type |-> "WalrusConfig"], <<>>,
                            <<"getConfig">>)
    /\ remote' = <<>>
    /\ UNCHANGED stored
    /\ Fixed

\* The references to configuration objects that callers hold.
HeldRefs == (2..Len(objects)) \cup (IF api = "getConfig" THEN {input.ref} ELSE {})

\* A caller assigns to a property of a snapshot it was given.
MutateSnapshot ==
    \E ref \in HeldRefs, field \in MutableFields, value \in MutatedValues :
        /\ objects' = [objects EXCEPT ![ref][field] = value]
        /\ api' = "mutate"
        /\ input' = [NoInput EXCEPT !.ref = ref, !.field = field, !.value = value]
        /\ remote' = <<>>
        /\ reply' = NoReply
        /\ UNCHANGED stored
        /\ Fixed

Next ==
    \/ CallTool
    \/ ReadResource
    \/ Call_storeBlob
    \/ Call_getBlob
    \/ Call_getBlobInfo
    \/ Call_blobExists
    \/ Call_listBlobs
    \/ Call_deleteBlob
    \/ Call_getNetworkStatus
    \/ Call_getConfig
    \/ MutateSnapshot

Spec == Init /\ [][Next]_vars

\* The configuration alone: construction and the reads of the configuration.
NextConfig ==
    \/ ReadResource
    \/ Call_getConfig

SpecConfig == InitConfig /\ [][NextConfig]_vars

----------------------------------------------------------------------------
(* Properties *)

\* The answer of the remote to the first request of the last operation.
FirstAnswer == Head(remote)

\* The tool call passed its schema.
ArgumentsValid ==
    /\ input.args.isObject
    /\ CASE input.name = "store_blob" ->
                /\ input.args.data.t = "string"
                /\ input.args.epochs.t \in {"number", "undefined"}
         [] input.name \in {"get_blob", "get_blob_info", "delete_blob"} ->
                input.args.blobId.t = "string"
         [] input.name = "list_blobs" -> input.args.limit.t \in {"number", "undefined"}
         [] OTHER -> FALSE

\* What the client's method does when the tool call reaches it.
ClientOutcome ==
    CASE input.name = "store_blob" ->
            storeBlob(input.args.data.s, OptionalNumber(input.args.epochs), remote)
      [] input.name = "get_blob" -> getBlob(input.args.blobId.s, remote)
      [] input.name = "get_blob_info" -> getBlobInfo(input.args.blobId.s, remote)
      [] input.name = "list_blobs" -> listBlobs(0)
      [] input.name = "delete_blob" -> deleteBlob(input.args.blobId.s)

\* C1: call_tool never propagates a fault.  Whatever the name and the
\* arguments, the handler returns an envelope; when the arguments fail the
\* tool's schema (store_blob without data among them), when the name is not one
\* of the five tools, or when the client's method raises, the envelope's isError
\* flag is true.
C1_CallToolNeverThrows ==
    api = "call_tool" =>
        /\ reply.kind = "envelope"
        /\ (input.name \notin ToolNames => reply.isError)
        /\ (input.name \in ToolNames /\ ~ArgumentsValid => reply.isError)
        /\ (input.name = "store_blob" /\ input.args.data.t = "undefined" => reply.isError)
        /\ (input.name \in ToolNames /\ ArgumentsValid /\ ~ClientOutcome.ok => reply.isError)

\* call_tool("store_blob", {}) has returned an error envelope.
C1_Witness ==
    /\ api = "call_tool"
    /\ input.name = "store_blob"
    /\ input.args = EmptyArguments
    /\ reply.kind = "envelope"
    /\ reply.isError

\* C2: read_resource on a URI other than the two known ones throws an error
\* that names the URI and returns no envelope, while call_tool on an unknown
\* name returns an error envelope.
C2_ResourceHardToolSoft ==
    /\ (api = "read_resource" /\ input.uri \notin {StatusUri, ConfigUri} =>
            /\ reply.kind = "fault"
            /\ Contains(reply.text, <<input.uri>>))
    /\ (api = "call_tool" /\ input.name \notin ToolNames =>
            /\ reply.kind = "envelope"
            /\ reply.isError)

\* read_resource on an unknown URI has thrown.
C2_Witness ==
    /\ api = "read_resource"
    /\ input.uri = "walrus://other"
    /\ reply.kind = "fault"
    /\ reply.text = <<"Failed to read resource ", "walrus://other", ": ",
                      "Unknown resource: ", "walrus://other">>

\* The client method the last operation called: the method itself when it
\* was called directly, the method the tool reached when a tool was called.
Invoked ==
    IF api = "call_tool"
    THEN IF Len(reply.trace) = 2 THEN reply.trace[2] ELSE "none"
    ELSE api

\* The error the invoked client method raised, when it raised one.
Raised ==
    IF api = "call_tool" THEN reply.isError /\ Invoked # "none" ELSE reply.kind = "thrown"

\* The message of that error.
RaisedMessage ==
    IF api = "call_tool" THEN SubSeq(reply.text, 2, Len(reply.text)) ELSE reply.text

\* The value a client method called directly returned.
ReturnedValue == reply.val

\* C3: store normalises the publisher's 2xx reply.  A newlyCreated reply gives
\* the reply's size, encoded size and storage id; an alreadyCertified reply
\* gives size 0, encodedSize 0 and certified true with the reply's identifier;
\* a reply of neither shape (or a newlyCreated without its blobObject) makes
\* store throw the unexpected-format error and return no record.
C3_StoreNormalizes ==
    api = "storeBlob" /\ reply.log # <<>> /\ FirstAnswer.kind = "ok" =>
        LET new == FirstAnswer.data.newlyCreated
            cert == FirstAnswer.data.alreadyCertified
        IN /\ (new.present /\ new.blobObject.present =>
                /\ reply.kind = "returned"
                /\ ReturnedValue.type = "BlobInfo"
                /\ ReturnedValue.blobId = new.blobObject.blobId
                /\ ReturnedValue.size = new.blobObject.size
                /\ ReturnedValue.encodedSize = new.blobObject.encodedSize
                /\ ReturnedValue.storageId = new.blobObject.id)
           /\ (~new.present /\ cert.present =>
                /\ reply.kind = "returned"
                /\ ReturnedValue.type = "BlobInfo"
                /\ ReturnedValue.blobId = cert.blobId
                /\ ReturnedValue.storageId = cert.blobId
                /\ ReturnedValue.size = 0
                /\ ReturnedValue.encodedSize = 0
                /\ ReturnedValue.certified)
           /\ (~new.present /\ ~cert.present =>
                /\ reply.kind = "thrown"
                /\ reply.val = NoValue
                /\ Contains(reply.text, UnexpectedFormat))
           /\ (new.present /\ ~new.blobObject.present =>
                /\ reply.kind = "thrown"
                /\ reply.val = NoValue)

\* store has normalised an alreadyCertified reply, which carries no size.
C3_Witness ==
    /\ api = "storeBlob"
    /\ FirstAnswer.kind = "ok"
    /\ FirstAnswer.data = CertifiedData
    /\ reply.kind = "returned"
    /\ ReturnedValue.size = 0
    /\ ReturnedValue.blobId = <<"blob-2">>

RemoteMethods == {"storeBlob", "getBlob", "getBlobInfo", "blobExists"}

\* C4 as claimed: every invocation of store, fetch, inspect or exists, called
\* directly or reached by a tool call, makes exactly one remote call attempt.
C4_ExactlyOneAttempt == Invoked \in RemoteMethods => Len(reply.log) = 1

\* C4: no operation makes more than one remote call attempt, whatever the
\* remote does with it.  store, fetch, inspect and exists make exactly one,
\* except a store whose payload is a path to a file that cannot be read: it
\* fails before any request is made.  The other operations make none.
C4_NoRetry ==
    /\ Len(reply.log) <= 1
    /\ (Invoked \in RemoteMethods =>
            \/ Len(reply.log) = 1
            \/ /\ Invoked = "storeBlob"
               /\ Raised
               /\ RaisedMessage = StorePrefix \o NoSuchFile)
    /\ (Invoked \notin RemoteMethods => reply.log = <<>>)

\* fetch failed on its one attempt although a second attempt would have
\* succeeded.
C4_Witness ==
    /\ api = "getBlob"
    /\ FirstAnswer.kind = "network"
    /\ remote[2].kind = "ok"
    /\ reply.kind = "thrown"
    /\ Len(reply.log) = 1

\* C5: the configuration never changes after construction.  getConfig returns
\* a new object equal to this.config, never this.config itself, and
\* read_resource on the config URI returns the text of the configuration as
\* constructed, whatever callers did to the snapshots they were given.
C5_ConfigImmutable ==
    /\ ThisConfig = initialConfig
    /\ (api = "getConfig" =>
            /\ input.ref # ConfigRef
            /\ objects[input.ref] = initialConfig)
    /\ (api = "read_resource" /\ input.uri = ConfigUri =>
            /\ reply.kind = "contents"
            /\ reply.text = JsonConfig(initialConfig))

\* The configuration is read after a caller changed the snapshot it had got.
C5_Witness ==
    /\ api = "read_resource"
    /\ input.uri = ConfigUri
    /\ reply.kind = "contents"
    /\ \E ref \in 2..Len(objects) : objects[ref] # initialConfig
    /\ ThisConfig = initialConfig

\* C6 as claimed: fetch on a 404 reply raises NotFound with the requested
\* identifier; on any other failure it raises FetchFailed with the remote's
\* error message when the reply has one, else with the transport error's text;
\* only a 2xx reply returns, and returns the bytes as base64 text.
C6_FetchErrors ==
    api = "getBlob" =>
        /\ (FirstAnswer.kind = "status" /\ FirstAnswer.status = 404 =>
                /\ reply.kind = "thrown"
                /\ reply.text = NotFoundPrefix \o input.blobId)
        /\ (FirstAnswer.kind # "ok" /\ FirstAnswer.status # 404 =>
                /\ reply.kind = "thrown"
                /\ reply.text = RetrievePrefix \o
                        (IF FirstAnswer.kind = "status" /\ Truthy(FirstAnswer.bodyError)
                         THEN FirstAnswer.bodyError.s ELSE FirstAnswer.message))
        /\ (FirstAnswer.kind = "ok" =>
                /\ reply.kind = "returned"
                /\ ReturnedValue = StringValue(Base64Encode(FirstAnswer.bytes)))
        /\ (reply.kind = "returned" => FirstAnswer.kind = "ok")

\* The prefix that names each operation.
PrefixOf(method) ==
    CASE method = "storeBlob" -> StorePrefix
      [] method = "getBlob" -> RetrievePrefix
      [] method = "getBlobInfo" -> InfoPrefix

\* The last operation got a 404 reply to a read of the aggregator.
NotFoundReply ==
    /\ api \in {"getBlob", "getBlobInfo"}
    /\ FirstAnswer.kind = "status"
    /\ FirstAnswer.status = 404

\* The publisher's reply to store carries a non-empty error text.
StoreRemoteText ==
    /\ api = "storeBlob"
    /\ reply.log # <<>>
    /\ FirstAnswer.kind = "status"
    /\ Truthy(FirstAnswer.bodyError)

C8_EnvelopeCarriesMessage ==
    api = "call_tool" =>
        /\ (input.name \notin ToolNames =>
                /\ reply.isError
                /\ Contains(reply.text, <<input.name>>)
                /\ reply.text = <<"Error: ", "Unknown tool: ", input.name>>)
        /\ (input.name \in ToolNames /\ ArgumentsValid /\ ~ClientOutcome.ok =>
                /\ reply.isError
                /\ Contains(reply.text, ClientOutcome.msg)
                /\ reply.text = ErrorPrefix \o ClientOutcome.msg)

\* get_blob has met a 404 reply, and the envelope carries the client's message.
C8_Witness ==
    /\ api = "call_tool"
    /\ input.name = "get_blob"
    /\ input.args.blobId = JsString(<<"blob-1">>)
    /\ FirstAnswer.status = 404
    /\ reply.isError
    /\ reply.text = <<"Error: ", "Blob not found: ", "blob-1">>

\* The payload and the epochs store was called with.
StoreData == IF api = "call_tool" THEN input.args.data.s ELSE input.data

StoreEpochs == IF api = "call_tool" THEN OptionalNumber(input.args.epochs) ELSE input.epochs

\* The text starts with '/', './' or '../'.
PathShaped(str) ==
    \/ Len(str) >= 1 /\ str[1] = "/"
    \/ Len(str) >= 2 /\ str[1] = "." /\ str[2] = "/"
    \/ Len(str) >= 3 /\ str[1] = "." /\ str[2] = "." /\ str[3] = "/"

DefaultedOptions == {"aggregatorUrl", "publisherUrl", "systemObject"}

EnvOf(option) ==
    CASE option = "aggregatorUrl" -> env.WALRUS_AGGREGATOR_URL
      [] option = "publisherUrl" -> env.WALRUS_PUBLISHER_URL
      [] option = "systemObject" -> env.WALRUS_SYSTEM_OBJECT
      [] option = "wallet" -> env.WALRUS_WALLET_PATH

DefaultOf(option) ==
    CASE option = "aggregatorUrl" -> DefaultAggregatorUrl
      [] option = "publisherUrl" -> DefaultPublisherUrl
      [] option = "systemObject" -> DefaultSystemObject

\* The constructor was given a value for the option.
Given(option) == override.given /\ override[option].def

\* The constructor was given a non-empty value for the option.
GivenNonEmpty(option) == Given(option) /\ override[option].s # <<>>

\* C10 as claimed: each option resolves to the override when one is given,
\* else to the environment variable when it is set, else to the default;
\* walletPath to the override, else to the environment variable.
C10_AsClaimed ==
    /\ \A option \in DefaultedOptions :
            ThisConfig[option] =
                IF Given(option) THEN override[option]
                ELSE IF EnvOf(option).def THEN EnvOf(option)
                ELSE Some(DefaultOf(option))
    /\ ThisConfig.wallet = IF Given("wallet") THEN override.wallet ELSE EnvOf("wallet")

\* C10: each of readEndpoint, writeEndpoint and systemObjectId resolves to the
\* override when one is given and is not the empty string, else to the
\* environment variable when it is set and not empty, else to the default;
\* walletPath resolves to the override when one is given and not empty, else
\* to whatever the environment variable holds (unset, empty or a path).
C10_Resolution ==
    /\ \A option \in DefaultedOptions :
            ThisConfig[option] =
                IF GivenNonEmpty(option) THEN override[option]
                ELSE IF EnvOf(option).def /\ EnvOf(option).s # <<>> THEN EnvOf(option)
                ELSE Some(DefaultOf(option))
    /\ ThisConfig.wallet =
            IF GivenNonEmpty("wallet") THEN override.wallet ELSE EnvOf("wallet")

\* The configuration was read from a client whose options were resolved one
\* from the override, one from the environment and one from the default.
C10_Witness ==
    /\ api = "getConfig"
    /\ GivenNonEmpty("aggregatorUrl")
    /\ ThisConfig.aggregatorUrl = Some(<<"from-override">>)
    /\ ~Given("publisherUrl")
    /\ ThisConfig.publisherUrl = Some(<<"from-env">>)
    /\ ~Given("systemObject")
    /\ ThisConfig.systemObject = Some(DefaultSystemObject)
    /\ objects[input.ref] = ThisConfig

\* The outcome deleteBlob reports.
DeleteRefused ==
    [type |-> "DeleteOutcome", success |-> FALSE, message |-> DeleteMessage]

\* C11: deleteBlob returns {success: false, message: the fixed text} for every
\* identifier, the empty string included; it never throws and issues no
\* request.  call_tool("delete_blob", {blobId}) with a string blobId returns an
\* envelope that is not an error and whose text is that outcome as JSON.
C11_DeleteRefuses ==
    /\ (api = "deleteBlob" =>
            /\ reply.kind = "returned"
            /\ reply.val = DeleteRefused
            /\ reply.log = <<>>)
    /\ (api = "call_tool" /\ input.name = "delete_blob" /\ ArgumentsValid =>
            /\ reply.kind = "envelope"
            /\ ~reply.isError
            /\ reply.text = JsonStringify(DeleteRefused)
            /\ reply.text = <<"{", "\"success\": ", "false", ",", "\"message\": ", "\"">>
                                \o DeleteMessage \o <<"\"", "}">>
            /\ Invoked = "deleteBlob"
            /\ reply.log = <<>>)

\* call_tool("delete_blob", {blobId: ""}) has returned the refusal.
C11_Witness ==
    /\ api = "call_tool"
    /\ input.name = "delete_blob"
    /\ input.args.blobId = JsString(<<>>)
    /\ reply.kind = "envelope"
    /\ ~reply.isError
    /\ reply.text = JsonStringify(DeleteRefused)

\* The elements of a sequence.
Elements(items) == {items[i] : i \in 1..Len(items)}

\* C12: listBlobs returns the empty array for every limit (0, 1000 and the
\* default among them) and issues no request, whatever blobs earlier store
\* operations created: no blob stored so far is an element of the result.
\* list_blobs with arguments that pass its schema returns the text "[]".
C12_ListAlwaysEmpty ==
    /\ (api = "listBlobs" =>
            /\ reply.kind = "returned"
            /\ reply.val.type = "array"
            /\ reply.val.items = <<>>
            /\ stored \cap Elements(reply.val.items) = {}
            /\ reply.log = <<>>)
    /\ (api = "call_tool" /\ input.name = "list_blobs" /\ ArgumentsValid =>
            /\ reply.kind = "envelope"
            /\ ~reply.isError
            /\ reply.text = <<"[]">>
            /\ reply.log = <<>>)

\* listBlobs(1000) has returned the empty array after a store created blob-1.
C12_Witness ==
    /\ api = "listBlobs"
    /\ input.limit = Num(1000)
    /\ stored = {<<"blob-1">>}
    /\ reply.kind = "returned"
    /\ reply.val.items = <<>>

\* The steps of the last tool call at which the schema parsed the arguments,
\* and those at which a method of the client was called.
ParseSteps == {i \in 1..Len(reply.trace) : reply.trace[i] = "parse"}

MethodSteps == {i \in 1..Len(reply.trace) : reply.trace[i] # "parse"}

\* C13: in call_tool the schema is applied before the client is called.  A
\* method of the client is called, and a request issued, only for one of the
\* five tools, with arguments that pass its schema, and after the parse; a call
\* whose arguments fail the schema or whose name is unknown returns an error
\* envelope without any call of the client and without any request.
C13_ValidationFirst ==
    api = "call_tool" =>
        /\ \A i \in MethodSteps :
                /\ input.name \in ToolNames
                /\ ArgumentsValid
                /\ \E j \in ParseSteps : j < i
        /\ (reply.log # <<>> => MethodSteps # {})
        /\ (input.name \notin ToolNames \/ ~ArgumentsValid =>
                /\ reply.kind = "envelope"
                /\ reply.isError
                /\ MethodSteps = {}
                /\ reply.log = <<>>)

\* call_tool("store_blob", {data: "SGVsbG8="}) has parsed its arguments, then
\* called storeBlob, which issued its PUT.
C13_Witness ==
    /\ api = "call_tool"
    /\ input.name = "store_blob"
    /\ input.args.data = JsString(Hello)
    /\ ArgumentsValid
    /\ reply.trace = <<"parse", "storeBlob">>
    /\ Len(reply.log) = 1
    /\ reply.log[1].method = "PUT"

====
